---- MODULE Spec2Model ----
(***************************************************************************)
(* A model of tmap's Mapper (tmap/tda/mapper.py): Mapper.filter, the       *)
(* projection stage, and Mapper.map, the graph construction stage.         *)
(*                                                                         *)
(* Points are the row indices 0..n-1.  A boolean mask is a function from   *)
(* 0..n-1 to BOOLEAN.  A Python dict is a sequence of <<key, value>>       *)
(* pairs in insertion order.  NaN in the adjacency table is the empty      *)
(* tuple and the stored 1 is <<1>>.                                        *)
(*                                                                         *)
(* A hypercube is the set of its point indices.  One iteration of the loop *)
(* over the hypercubes is one step.  The progress output (verbose) changes *)
(* no value and is left out; data is an array without index, cover.data    *)
(* has one column, and an average is the pair <<sum, count>>.              *)
(***************************************************************************)
EXTENDS Integers, Sequences, FiniteSets, TLC

VARIABLES
    pc,             \* position of Mapper.map: start, loop, done, error
    data,           \* map's data argument, an array: its shape [rows, cols]
    cover,          \* the cover: [n_points, hypercubes, resolution, overlap]
    clusterer,      \* the clusterer: [params, metric, hasFit]
    ci,             \* position of the for loop over the hypercubes (1-based)
    labels_,        \* clusterer.labels_ after the last fit
    nodes,          \* the dict nodes: node id -> point mask
    node_id,        \* the counter node_id
    graph,          \* the returned graph: a function from field names
    fitCalls,       \* history: number of calls of clusterer.fit
    origin,         \* history: for each created node its hypercube and label
    fitLog,         \* history: for each iterated hypercube what was done with it
    fpc,            \* position of Mapper.filter: start, lens, done, error
    fdata,          \* filter's data: the argument, then the array made of it
    finput,         \* history: filter's data argument as it was passed
    lens,           \* filter's lens argument (a list of lenses, or None)
    fi,             \* position of the for loop over lens (1-based)
    projected_data  \* filter's projected_data

vars == <<pc, data, cover, clusterer, ci, labels_, nodes, node_id,
          graph, fitCalls, origin, fitLog, fpc, fdata, finput, lens, fi, projected_data>>

mapVars == <<pc, data, cover, clusterer, ci, labels_, nodes, node_id,
             graph, fitCalls, origin, fitLog>>

filterVars == <<fpc, fdata, finput, lens, fi, projected_data>>

----------------------------------------------------------------------------
(* Bounds of the model *)

\* the covers tried have n_points + len(hypercubes) <= MaxSize
MaxSize == 4

\* the labels a fit may return; -1 is the label of un-clustered points
LabelValues == {-1, 0, 1}

\* the values of the clusterer's min_samples parameter that are tried
MinSamplesValues == {-1, 0, 1, 2}

Metrics == {"euclidean", "precomputed"}

----------------------------------------------------------------------------
(* Python and numpy helpers *)

NaN == << >>

EmptyDict == << >>

Range(s) == {s[i] : i \in DOMAIN s}

RECURSIVE SortedSeq(_)
\* the elements of a finite set of integers in ascending order
SortedSeq(S) ==
    IF S = {} THEN << >>
    ELSE LET m == CHOOSE x \in S : \A y \in S : x <= y
         IN  <<m>> \o SortedSeq(S \ {m})

\* dict.keys(): the keys in insertion order
Keys(d) == [i \in DOMAIN d |-> d[i][1]]

\* d[k]
DictItem(d, k) == d[CHOOSE i \in DOMAIN d : d[i][1] = k][2]

\* d.get(k, default)
DictGet(d, k, default) ==
    IF \E i \in DOMAIN d : d[i][1] = k THEN DictItem(d, k) ELSE default

\* d[k] = v: an existing key keeps its place, a new key goes last
DictSet(d, k, v) ==
    IF \E i \in DOMAIN d : d[i][1] = k
    THEN [i \in DOMAIN d |-> IF d[i][1] = k THEN <<k, v>> ELSE d[i]]
    ELSE Append(d, <<k, v>>)

\* np.zeros(n, dtype=bool)
Zeros(n) == [i \in 0..(n - 1) |-> FALSE]

\* mask[idx] = True for an index array idx
SetTrue(mask, idx) == [i \in DOMAIN mask |-> mask[i] \/ i \in Range(idx)]

\* data_idx[cube]: the point indices of a hypercube, ascending
TakeCube(cube) == SortedSeq(cube)

\* a slip of a[labels == label]: the selection by the label is left out
WhereLabel_All(a, labels, label) == a

\* a[labels == label]: the entries of a at the positions carrying the label
WhereLabel(a, labels, label) ==
    LET RECURSIVE Pick(_)
        Pick(i) == IF i > Len(a) THEN << >>
                   ELSE (IF labels[i] = label THEN <<a[i]>> ELSE << >>) \o Pick(i + 1)
    IN  Pick(1)

\* np.unique(labels): the distinct labels, ascending
Unique(labels) == SortedSeq(Range(labels))

\* a slip of np.any(m1 & m2): the union of the masks in place of the intersection
AnyAnd_Or(m1, m2) == \E i \in DOMAIN m1 : m1[i] \/ m2[i]

\* np.any(m1 & m2)
AnyAnd(m1, m2) == \E i \in DOMAIN m1 : m1[i] /\ m2[i]

\* data_idx[mask]: the indices where the mask is true, ascending
WhereTrue(mask) == SortedSeq({i \in DOMAIN mask : mask[i]})

\* cover.data: the projected coordinate of each point (one column)
CoverData(i) == 2 * i + 1

RECURSIVE SumSeq(_)
SumSeq(s) == IF s = << >> THEN 0 ELSE Head(s) + SumSeq(Tail(s))

\* np.average(cover.data[mask, :], axis=0) as <<sum, count>>; NaN of no row
Average(mask) ==
    LET idx == WhereTrue(mask)
    IN  IF idx = << >> THEN NaN
        ELSE <<SumSeq([i \in DOMAIN idx |-> CoverData(idx[i])]), Len(idx)>>

----------------------------------------------------------------------------
(* Mapper.map *)

\* the sequences of at most n elements of S
SeqsUpTo(S, n) == UNION {[1..k -> S] : k \in 0..n}

InitMap ==
    /\ pc = "start"
    /\ \E r \in 1..MaxSize :
         data \in [rows : {r}, cols : {r, r + 1}]
    /\ \E np \in 1..MaxSize :
         cover \in [n_points : {np},
                    hypercubes : SeqsUpTo(SUBSET (0..(np - 1)), MaxSize - np),
                    resolution : {"resolution"},
                    overlap : {"overlap"}]
    /\ clusterer \in [params : {EmptyDict} \cup
                               {<< <<"min_samples", k>> >> : k \in MinSamplesValues},
                      metric : Metrics,
                      hasFit : BOOLEAN]
    /\ ci = 1
    /\ labels_ = << >>
    /\ nodes = EmptyDict
    /\ node_id = 0
    /\ graph = EmptyDict
    /\ fitCalls = 0
    /\ origin = << >>
    /\ fitLog = << >>

\* min_cluster_samples = cluster_params.get("min_samples", 1)
min_cluster_samples == DictGet(clusterer.params, "min_samples", 1)

\* the hypercube of the current iteration
cube == cover.hypercubes[ci]

\* cube_data.shape: rows of the cube, and its columns too when precomputed
cube_data_shape ==
    IF clusterer.metric # "precomputed"
    THEN <<Cardinality(cube), data.cols>>
    ELSE <<Cardinality(cube), Cardinality(cube)>>

\* a slip of the gate: the columns of the cube are counted, shape[1] for shape[0]
PassesGate_Cols == cube_data_shape[2] >= min_cluster_samples

\* cube_data.shape[0] >= min_cluster_samples
PassesGate == cube_data_shape[1] >= min_cluster_samples

\* a slip of the first assertion: the columns of data are compared
RowsMatch_Cols == data.cols = cover.n_points

\* data.shape[0] == cover.n_points
RowsMatch == data.rows = cover.n_points

\* the two assertions before the loop
MapEnter ==
    /\ pc = "start"
    /\ IF ~RowsMatch
       THEN pc' = "error"
       ELSE IF clusterer.metric = "precomputed" /\ data.rows # data.cols
            THEN pc' = "error"
            ELSE pc' = "loop"
    /\ UNCHANGED <<data, cover, clusterer, ci, labels_, nodes, node_id,
                   graph, fitCalls, origin, fitLog>>
    /\ UNCHANGED filterVars

\* a hypercube with fewer rows than min_cluster_samples is passed over
CubeSkip ==
    /\ pc = "loop"
    /\ ci <= Len(cover.hypercubes)
    /\ ~PassesGate
    /\ ci' = ci + 1
    /\ fitLog' = Append(fitLog, [kind |-> "skip", labels |-> << >>])
    /\ UNCHANGED <<pc, data, cover, clusterer, labels_, nodes, node_id,
                   graph, fitCalls, origin>>
    /\ UNCHANGED filterVars

RECURSIVE LabelLoop_KeepNoise(_, _, _, _)
\* a slip of the loop over the labels: the label -1 gets a node too
LabelLoop_KeepNoise(ls, ns, id, og) ==
    IF ls = << >> THEN <<ns, id, og>>
    ELSE LET label == Head(ls)
             point_mask == SetTrue(Zeros(data.rows),
                                   WhereLabel(TakeCube(cube), labels_', label))
         IN  LabelLoop_KeepNoise(Tail(ls), DictSet(ns, id, point_mask), id + 1,
                                 Append(og, [cube |-> ci, label |-> label]))

RECURSIVE LabelLoop_SkipId(_, _, _, _)
\* a slip of the loop over the labels: node_id is counted for label -1 too
LabelLoop_SkipId(ls, ns, id, og) ==
    IF ls = << >> THEN <<ns, id, og>>
    ELSE LET label == Head(ls)
             point_mask == SetTrue(Zeros(data.rows),
                                   WhereLabel(TakeCube(cube), labels_', label))
         IN  IF label # -1
             THEN LabelLoop_SkipId(Tail(ls), DictSet(ns, id, point_mask), id + 1,
                                   Append(og, [cube |-> ci, label |-> label]))
             ELSE LabelLoop_SkipId(Tail(ls), ns, id + 1, og)

RECURSIVE LabelLoop(_, _, _, _)
\* for label in np.unique(clusterer.labels_): a node for every label but -1.
\* The result is <<nodes, node_id, origin>> after the labels in ls.
LabelLoop(ls, ns, id, og) ==
    IF ls = << >> THEN <<ns, id, og>>
    ELSE LET label == Head(ls)
             point_mask == SetTrue(Zeros(data.rows),
                                   WhereLabel(TakeCube(cube), labels_', label))
         IN  IF label # -1
             THEN LabelLoop(Tail(ls), DictSet(ns, id, point_mask), id + 1,
                            Append(og, [cube |-> ci, label |-> label]))
             ELSE LabelLoop(Tail(ls), ns, id, og)

\* clusterer.fit(cube_data) returns any labels, one per row of the cube; then
\* the loop over the labels
CubeFit ==
    /\ pc = "loop"
    /\ ci <= Len(cover.hypercubes)
    /\ PassesGate
    /\ clusterer.hasFit
    /\ \E l \in [1..cube_data_shape[1] -> LabelValues] :
         /\ labels_' = l
         /\ fitLog' = Append(fitLog, [kind |-> "fit", labels |-> l])
    /\ fitCalls' = fitCalls + 1
    /\ LET after == LabelLoop(Unique(labels_'), nodes, node_id, origin)
       IN  /\ nodes' = after[1]
           /\ node_id' = after[2]
           /\ origin' = after[3]
    /\ ci' = ci + 1
    /\ UNCHANGED <<pc, data, cover, clusterer, graph>>
    /\ UNCHANGED filterVars

\* a clusterer without fit: the whole hypercube is one node
CubeWhole ==
    /\ pc = "loop"
    /\ ci <= Len(cover.hypercubes)
    /\ PassesGate
    /\ ~clusterer.hasFit
    /\ LET point_mask == SetTrue(Zeros(data.rows), TakeCube(cube))
       IN  nodes' = DictSet(nodes, node_id, point_mask)
    /\ node_id' = node_id + 1
    /\ origin' = Append(origin, [cube |-> ci, label |-> 0])
    /\ fitLog' = Append(fitLog, [kind |-> "whole", labels |-> << >>])
    /\ ci' = ci + 1
    /\ UNCHANGED <<pc, data, cover, clusterer, labels_, graph, fitCalls>>
    /\ UNCHANGED filterVars

\* len(nodes) == 0: the empty graph is returned
MapReturnEmpty ==
    /\ pc = "loop"
    /\ ci > Len(cover.hypercubes)
    /\ Len(nodes) = 0
    /\ pc' = "done"
    /\ UNCHANGED <<data, cover, clusterer, ci, labels_, nodes, node_id,
                   graph, fitCalls, origin, fitLog>>
    /\ UNCHANGED filterVars

\* itertools.combinations(ids, 2): the pairs in the order of the positions
Combinations2(ids) ==
    {<<ids[p[1]], ids[p[2]]>> :
        p \in {q \in (DOMAIN ids) \X (DOMAIN ids) : q[1] < q[2]}}

\* a slip of the adjacency table: both (k1, k2) and (k2, k1) are set to 1
AdjMatrix_Symmetric(ids, masks) ==
    LET comb == Combinations2(ids)
        hit == {p \in comb : AnyAnd(DictItem(masks, p[1]), DictItem(masks, p[2]))}
    IN  [index |-> ids,
         columns |-> ids,
         cells |-> [p \in Range(ids) \X Range(ids) |->
                      IF p \in hit \/ <<p[2], p[1]>> \in hit THEN <<1>> ELSE NaN]]

\* pd.DataFrame(data=np.nan, index=ids, columns=ids), then
\* adj_matrix.loc[k1, k2] = 1 for the combinations whose masks share a point
AdjMatrix(ids, masks) ==
    LET comb == Combinations2(ids)
        hit == {p \in comb : AnyAnd(DictItem(masks, p[1]), DictItem(masks, p[2]))}
    IN  [index |-> ids,
         columns |-> ids,
         cells |-> [p \in Range(ids) \X Range(ids) |->
                      IF p \in hit THEN <<1>> ELSE NaN]]

\* adj_matrix.stack(dropna=True).index.tolist(): row by row, the (row, column)
\* labels of the cells that are not NaN
Stack(adj) ==
    LET k == Len(adj.index)
        at(t) == <<adj.index[((t - 1) \div k) + 1], adj.columns[((t - 1) % k) + 1]>>
        present(p) == adj.cells[p] # NaN
    IN  SelectSeq([t \in 1..(k * k) |-> at(t)], present)

\* list(range(data.shape[0])): data is an array, which has no index
SampleNames == [i \in 1..data.rows |-> i - 1]

\* node positions and sizes, the adjacency table, the edges and the graph
MapBuildGraph ==
    /\ pc = "loop"
    /\ ci > Len(cover.hypercubes)
    /\ Len(nodes) # 0
    /\ LET node_keys == Keys(nodes)
           node_positions == [i \in DOMAIN node_keys |->
                                Average(DictItem(nodes, node_keys[i]))]
           node_sizes == [i \in DOMAIN node_keys |->
                            Len(WhereTrue(DictItem(nodes, node_keys[i])))]
           adj_matrix == AdjMatrix(node_keys, nodes)
           edges == Stack(adj_matrix)
           node_lists == [i \in DOMAIN nodes |->
                            <<nodes[i][1], WhereTrue(nodes[i][2])>>]
       IN  /\ nodes' = node_lists
           /\ node_id' = node_keys[Len(node_keys)]
           /\ graph' = << <<"nodes", node_lists>>,
                          <<"edges", edges>>,
                          <<"adj_matrix", adj_matrix>>,
                          <<"sample_names", SampleNames>>,
                          <<"node_keys", node_keys>>,
                          <<"node_positions", node_positions>>,
                          <<"node_sizes", node_sizes>>,
                          <<"params", << <<"cluster", clusterer.params>>,
                                         <<"cover", << <<"resolution", cover.resolution>>,
                                                       <<"overlap", cover.overlap>> >> >> >> >> >>
    /\ pc' = "done"
    /\ UNCHANGED <<data, cover, clusterer, ci, labels_, fitCalls, origin, fitLog>>
    /\ UNCHANGED filterVars

----------------------------------------------------------------------------
(* Mapper.filter *)

\* bounds of the inputs of filter
MaxRows == 2

MaxCols == 1

MaxWidth == 2

MaxLens == 2

\* the entries of the data tried
Entries == {0, 1}

\* None where an array is expected
NoneArray == [kind |-> "None", rows |-> << >>]

\* None where a list of lenses is expected
NoneList == [kind |-> "None", items |-> << >>]

\* the matrices of r rows and c columns
Matrices(r, c) == [1..r -> [1..c -> Entries]]

\* the lenses tried: the output has width columns, each row a function of the
\* same row of the input
Lenses == [width : 1..MaxWidth, shift : 0..1]

\* _filter.fit_transform(a): as many rows as a has
fit_transform(_filter, a) ==
    [kind |-> "ndarray",
     rows |-> [r \in DOMAIN a.rows |->
                 [j \in 1.._filter.width |->
                    (SumSeq(a.rows[r]) + _filter.shift + j) % 3]]]

\* np.array(a)
np_array(a) == [kind |-> "ndarray", rows |-> a.rows]

\* a slip of np.concatenate([a, b], axis=1): the new columns are put first
concatenate1_Rev(a, b) ==
    [kind |-> "ndarray", rows |-> [r \in DOMAIN a.rows |-> b.rows[r] \o a.rows[r]]]

\* np.concatenate([a, b], axis=1)
concatenate1(a, b) ==
    [kind |-> "ndarray", rows |-> [r \in DOMAIN a.rows |-> a.rows[r] \o b.rows[r]]]

\* the value of data after the coercion to an array
Coerced == IF fdata.kind # "ndarray" THEN np_array(fdata) ELSE fdata

InitMapIdle ==
    /\ pc = "idle"
    /\ data = [rows |-> 1, cols |-> 1]
    /\ cover = [n_points |-> 1, hypercubes |-> << >>,
                resolution |-> "resolution", overlap |-> "overlap"]
    /\ clusterer = [params |-> EmptyDict, metric |-> "euclidean", hasFit |-> TRUE]
    /\ ci = 1
    /\ labels_ = << >>
    /\ nodes = EmptyDict
    /\ node_id = 0
    /\ graph = EmptyDict
    /\ fitCalls = 0
    /\ origin = << >>
    /\ fitLog = << >>

InitFilter ==
    /\ InitMapIdle
    /\ fpc = "start"
    /\ \/ fdata = NoneArray
       \/ \E r \in 1..MaxRows, c \in 1..MaxCols, k \in {"list", "ndarray"} :
            fdata \in [kind : {k}, rows : Matrices(r, c)]
    /\ finput = fdata
    /\ \/ lens = NoneList
       \/ lens \in [kind : {"list"}, items : SeqsUpTo(Lenses, MaxLens)]
    /\ fi = 1
    /\ projected_data = NoneArray

\* the checks and the coercion of data, then len(lens) > 0
FilterEnter ==
    /\ fpc = "start"
    /\ IF fdata.kind = "None"
       THEN /\ fpc' = "error"
            /\ UNCHANGED <<fdata, projected_data>>
       ELSE /\ fdata' = Coerced
            /\ IF lens.kind = "None"
               THEN \* len(None) raises TypeError
                    /\ fpc' = "error"
                    /\ UNCHANGED projected_data
               ELSE IF Len(lens.items) > 0
                    THEN /\ fpc' = "lens"
                         /\ UNCHANGED projected_data
                    ELSE /\ projected_data' = fdata'
                         /\ fpc' = "done"
    /\ UNCHANGED <<finput, lens, fi>>
    /\ UNCHANGED mapVars

\* one iteration of the loop over lens
FilterLens ==
    /\ fpc = "lens"
    /\ fi <= Len(lens.items)
    /\ LET _filter == lens.items[fi]
       IN  IF projected_data.kind = "None"
           THEN projected_data' = fit_transform(_filter, fdata)
           ELSE LET p == fit_transform(_filter, fdata)
                IN  projected_data' = concatenate1(projected_data, p)
    /\ fi' = fi + 1
    /\ UNCHANGED <<fpc, fdata, finput, lens>>
    /\ UNCHANGED mapVars

\* the loop is exhausted: return projected_data
FilterReturn ==
    /\ fpc = "lens"
    /\ fi > Len(lens.items)
    /\ fpc' = "done"
    /\ UNCHANGED <<fdata, finput, lens, fi, projected_data>>
    /\ UNCHANGED mapVars

NextFilter ==
    \/ FilterEnter
    \/ FilterLens
    \/ FilterReturn

SpecFilter == InitFilter /\ [][NextFilter]_vars

----------------------------------------------------------------------------
InitFilterIdle ==
    /\ fpc = "idle"
    /\ fdata = NoneArray
    /\ finput = NoneArray
    /\ lens = NoneList
    /\ fi = 1
    /\ projected_data = NoneArray

Init == InitMap /\ InitFilterIdle

Next ==
    \/ MapEnter
    \/ CubeSkip
    \/ CubeFit
    \/ CubeWhole
    \/ MapReturnEmpty
    \/ MapBuildGraph

Spec == Init /\ [][Next]_vars

----------------------------------------------------------------------------
(* Properties of Mapper.map *)

\* graph[f] of the returned graph
G(f) == DictItem(graph, f)

\* map has returned a graph that is not the empty one
Returned == pc = "done" /\ graph # EmptyDict

\* the member points of the node at position j of nodes: a mask during the
\* loop, a list of point indices in the returned graph
Members(j) ==
    IF Returned THEN Range(nodes[j][2])
    ELSE {i \in DOMAIN nodes[j][2] : nodes[j][2][i]}

\* the position of node id a in nodes
Pos(a) == CHOOSE j \in DOMAIN nodes : nodes[j][1] = a

NodeIds == Range(Keys(nodes))

\* C1: in a returned graph, for all node ids a < b the pair (a, b) is an edge
\* if and only if the two nodes share a member point, whatever hypercubes the
\* nodes come from, and no edge joins a node to itself.
C1_EdgesIffShared ==
    Returned =>
        LET es == Range(G("edges"))
            ns == G("nodes")
        IN  \A a \in Range(Keys(ns)), b \in Range(Keys(ns)) :
                /\ a < b =>
                     (<<a, b>> \in es <=>
                        Range(DictItem(ns, a)) \cap Range(DictItem(ns, b)) # {})
                /\ <<a, a>> \notin es

\* a returned graph with an edge between nodes that share a point, and a pair
\* of nodes without common point and without edge
C1_Witness ==
    /\ Returned
    /\ \E a \in NodeIds, b \in NodeIds :
         /\ a < b
         /\ <<a, b>> \in Range(G("edges"))
         /\ Members(Pos(a)) \cap Members(Pos(b)) # {}
    /\ \E a \in NodeIds, b \in NodeIds :
         /\ a < b
         /\ <<a, b>> \notin Range(G("edges"))
         /\ Members(Pos(a)) \cap Members(Pos(b)) = {}

\* the entry of the adjacency table at (a, b) is present
Present(a, b) == G("adj_matrix").cells[<<a, b>>] # NaN

C3_NodesNonEmpty ==
    pc = "loop" =>
        \A j \in DOMAIN nodes :
            /\ DOMAIN nodes[j][2] = 0..(data.rows - 1)
            /\ \E i \in DOMAIN nodes[j][2] : nodes[j][2][i]

\* the hypercube of iteration c and the points of it that got label l
CubeAt(c) == cover.hypercubes[c]

Labelled(c, l) ==
    LET idx == TakeCube(CubeAt(c))
    IN  {idx[i] : i \in {k \in DOMAIN idx : fitLog[c].labels[k] = l}}

\* the threshold of the gate: the min_samples parameter, 1 when there is none
Threshold ==
    IF clusterer.params = EmptyDict THEN 1 ELSE clusterer.params[1][2]

\* C4: with a clusterer that has fit, every hypercube passing the gate is
\* fitted and yields exactly one node per distinct label other than -1, whose
\* members are exactly the points of the hypercube with that label; nothing
\* else yields a node, and nodes are never merged, equal member sets or not.
C4_OneNodePerLabel ==
    (clusterer.hasFit /\ pc \in {"loop", "done"}) =>
        /\ Len(nodes) = Len(origin)
        /\ \A c \in DOMAIN fitLog :
             /\ fitLog[c].kind = (IF Cardinality(CubeAt(c)) >= Threshold
                                  THEN "fit" ELSE "skip")
             /\ \A l \in LabelValues :
                  LET made == {j \in DOMAIN origin :
                                 origin[j] = [cube |-> c, label |-> l]}
                  IN  IF fitLog[c].kind = "fit" /\ l # -1
                         /\ l \in Range(fitLog[c].labels)
                      THEN /\ Cardinality(made) = 1
                           /\ \A j \in made : Members(j) = Labelled(c, l)
                      ELSE made = {}
        /\ \A j \in DOMAIN origin :
             /\ origin[j].cube \in DOMAIN fitLog
             /\ Members(j) \subseteq CubeAt(origin[j].cube)
             /\ Members(j) \cap Labelled(origin[j].cube, -1) = {}

\* two hypercubes gave nodes of the same members, which stay two nodes, and
\* a point of a hypercube was labelled -1
C4_Witness ==
    /\ clusterer.hasFit
    /\ pc = "done"
    /\ \E i \in DOMAIN origin, j \in DOMAIN origin :
         /\ origin[i].cube # origin[j].cube
         /\ Members(i) = Members(j)
    /\ \E c \in DOMAIN fitLog :
         fitLog[c].kind = "fit" /\ Labelled(c, -1) # {} /\ Labelled(c, 0) # {}

\* every hypercube has fewer points than the threshold
AllBelow ==
    \A c \in DOMAIN cover.hypercubes : Cardinality(CubeAt(c)) < Threshold

C8_MismatchFails ==
    data.rows # cover.n_points =>
        /\ pc \in {"start", "error"}
        /\ fitCalls = 0
        /\ nodes = EmptyDict
        /\ graph = EmptyDict

\* map failed on a mismatch, with a cover that has a hypercube with points
C8_Witness ==
    /\ pc = "error"
    /\ data.rows # cover.n_points
    /\ \E c \in DOMAIN cover.hypercubes : CubeAt(c) # {}

\* <<cube, label>> of a precedes that of b
Before(a, b) == a.cube < b.cube \/ (a.cube = b.cube /\ a.label < b.label)

\* C9: in the loop the node ids are 0, ..., node_id - 1, given in the order
\* of the hypercubes and then of the labels; the returned graph has them all,
\* and node_keys lists them in that order.
C9_SequentialIds ==
    /\ pc = "loop" =>
         /\ Keys(nodes) = [j \in 1..node_id |-> j - 1]
         /\ Len(origin) = node_id
         /\ \A i \in DOMAIN origin, j \in DOMAIN origin :
              i < j => Before(origin[i], origin[j])
    /\ Returned =>
         /\ G("node_keys") = [j \in 1..Len(origin) |-> j - 1]
         /\ Keys(G("nodes")) = G("node_keys")
         /\ \A i \in DOMAIN origin, j \in DOMAIN origin :
              i < j => Before(origin[i], origin[j])

\* a returned graph of three nodes or more, two of them of one hypercube
C9_Witness ==
    /\ Returned
    /\ Len(G("node_keys")) >= 3
    /\ \E i \in DOMAIN origin, j \in DOMAIN origin :
         i # j /\ origin[i].cube = origin[j].cube

\* C10: two nodes of the same hypercube have no common member, so that every
\* edge joins nodes of two different hypercubes that both contain a point
\* which is a member of both nodes.
C10_NoEdgeInsideCube ==
    pc \in {"loop", "done"} =>
        /\ \A i \in DOMAIN nodes, j \in DOMAIN nodes :
             (i # j /\ origin[i].cube = origin[j].cube) =>
                 Members(i) \cap Members(j) = {}
        /\ Returned =>
             \A e \in Range(G("edges")) :
                 LET i == Pos(e[1])
                     j == Pos(e[2])
                 IN  /\ origin[i].cube # origin[j].cube
                     /\ \E q \in CubeAt(origin[i].cube) \cap CubeAt(origin[j].cube) :
                          q \in Members(i) \cap Members(j)

\* a returned graph with an edge and with two nodes of one hypercube
C10_Witness ==
    /\ Returned
    /\ G("edges") # << >>
    /\ \E i \in DOMAIN origin, j \in DOMAIN origin :
         i # j /\ origin[i].cube = origin[j].cube

----------------------------------------------------------------------------
(* Properties of Mapper.filter *)

\* the sum of the widths of the first k lenses
RECURSIVE WidthBefore(_)
WidthBefore(k) == IF k = 0 THEN 0 ELSE WidthBefore(k - 1) + lens.items[k].width

\* the output of lens k alone on the data as passed
Standalone(k) == fit_transform(lens.items[k], finput)

\* C6: for a non-empty list of lenses filter returns, for n rows of data, n
\* rows of as many columns as the lenses' widths sum to, in which the columns
\* of each lens are its output on the data as passed, in the order of the
\* lenses; the first columns are the first lens's output.
C6_Concatenation ==
    (fpc = "done" /\ lens.kind = "list" /\ Len(lens.items) > 0) =>
        /\ projected_data.kind = "ndarray"
        /\ Len(projected_data.rows) = Len(finput.rows)
        /\ \A r \in DOMAIN projected_data.rows :
             /\ Len(projected_data.rows[r]) = WidthBefore(Len(lens.items))
             /\ \A k \in DOMAIN lens.items :
                  \A j \in 1..lens.items[k].width :
                      projected_data.rows[r][WidthBefore(k - 1) + j]
                          = Standalone(k).rows[r][j]

\* filter returned for two lenses whose outputs differ
C6_Witness ==
    /\ fpc = "done"
    /\ lens.kind = "list"
    /\ Len(lens.items) = 2
    /\ lens.items[1].width # lens.items[2].width
    /\ Standalone(1).rows # Standalone(2).rows
    /\ Standalone(1).rows # finput.rows

\* C7: without lens, the argument left out or an empty list, filter returns
\* the data as passed and raises no error.
C7_NoLens ==
    (fpc \in {"done", "error"} /\ finput.kind # "None"
       /\ (lens.kind = "None" \/ Len(lens.items) = 0)) =>
        /\ fpc = "done"
        /\ projected_data.rows = finput.rows
====
